---- MODULE Spec2Model ----
(***************************************************************************)
(* Model of dashboard.py: the two series fetchers (fetch_fred, fetch_bls), *)
(* the derived yoy/mom columns, the latest-value snapshot and headline     *)
(* delta, the calendar fetcher and sidebar rendering, and the top-level    *)
(* script run with the host framework's per-argument memoization.          *)
(*                                                                         *)
(* Text is modelled as sequences of one-character strings so that parsing  *)
(* (int(), float(), to_numeric) is computed, not assumed.                  *)
(***************************************************************************)
EXTENDS Integers, Sequences, FiniteSets, TLC

VARIABLES
    sid,          \* series code being processed (a key of series_map)
    response,     \* JSON body returned by the series API for sid
    table,        \* data_frames[sid]: [raised, rows]
    derived,      \* cpi / core_cpi / pce / core_pce frame: [made, hasMom, rows]
    latest,       \* [val, prev]: latest[sid], latest["prev_" + sid]
    card,         \* the st.metric call: [shown, value, delta]
    pc,           \* position of the series pipeline
    padDefault,   \* TRUE when the installed pandas pads nulls in pct_change by default
    calResponse,  \* outcome of the calendar HTTP call
    calendar_df,  \* what fetch_calendar returned: [raised, columns, rows]
    sidebar,      \* the sidebar listing: [raisedAt, lines]
    cpc,          \* position of the calendar pipeline
    clock,        \* the UTC date of the process clock, in days
    rpc,          \* position of the script run
    nextSeries,   \* index of the series the fetch loop is at
    memo,         \* series codes whose fetch result the framework has memoized
    calMemo,      \* the memoized fetch_calendar result: [cached, window]
    requests,     \* HTTP requests sent for each series in this run
    failed,       \* the series whose HTTP request failed in this run, "" if none
    runDate,      \* the date on which this run started
    shown         \* what this run put on the page

svars == <<sid, response, table, derived, latest, card, pc, padDefault>>
cvars == <<calResponse, calendar_df, sidebar, cpc>>

rvars == <<clock, rpc, nextSeries, memo, calMemo, requests, failed, runDate, shown>>

vars == <<svars, cvars, rvars>>

nonSeriesVars == <<cvars, rvars>>
nonCalendarVars == <<svars, rvars>>
nonRunVars == <<svars, cvars>>

(***************************************************************************)
(* Bounds of the model.                                                    *)
(***************************************************************************)
MaxObs == 3        \* longest freely chosen list of observations / entries
MaxRows == 13      \* longest monthly history fed to the derived metrics
MaxNulls == 2      \* most "." values placed in a monthly history

(***************************************************************************)
(* Text and numbers.                                                       *)
(***************************************************************************)
Digits == {"0", "1", "2", "3", "4", "5", "6", "7", "8", "9"}

DigitValue(c) ==
    CASE c = "0" -> 0 [] c = "1" -> 1 [] c = "2" -> 2 [] c = "3" -> 3
      [] c = "4" -> 4 [] c = "5" -> 5 [] c = "6" -> 6 [] c = "7" -> 7
      [] c = "8" -> 8 [] c = "9" -> 9

DigitChar(n) ==
    CASE n = 0 -> "0" [] n = 1 -> "1" [] n = 2 -> "2" [] n = 3 -> "3"
      [] n = 4 -> "4" [] n = 5 -> "5" [] n = 6 -> "6" [] n = 7 -> "7"
      [] n = 8 -> "8" [] n = 9 -> "9"

\* A text that int() / float() / to_numeric accept: a non-empty run of digits.
IsNumeral(s) == Len(s) > 0 /\ \A i \in 1..Len(s) : s[i] \in Digits

RECURSIVE ParseDigits(_)
ParseDigits(s) ==
    IF s = <<>> THEN 0
    ELSE ParseDigits(SubSeq(s, 1, Len(s) - 1)) * 10 + DigitValue(s[Len(s)])

\* A float cell of a frame: NaN or a finite number.
NaN == [isnull |-> TRUE, num |-> 0]
Num(n) == [isnull |-> FALSE, num |-> n]

\* A Timestamp at midnight.
Timestamp(y, m, d) == [year |-> y, month |-> m, day |-> d]
DateKey(t) == t.year * 10000 + t.month * 100 + t.day

(***************************************************************************)
(* Configuration of the script.                                            *)
(***************************************************************************)
fred_ids == <<"CPIAUCSL", "CPILFESL", "PCEPI", "PCEPILFE", "FEDFUNDS">>
bls_ids == <<"CEU0000000001", "LNS14000000", "CES0500000003">>

Range(s) == {s[i] : i \in 1..Len(s)}

series_map == Range(bls_ids) \cup Range(fred_ids)

\* Series that get a yoy column, and those that also get a mom column.
YoySeries == {"CPIAUCSL", "CPILFESL", "PCEPI", "PCEPILFE"}
MomSeries == {"CPIAUCSL", "CPILFESL"}

YoyPeriods == 12
MomPeriods == 1

(***************************************************************************)
(* fetch_fred.                                                             *)
(***************************************************************************)
\* pd.to_numeric(text, errors="coerce")
to_numeric(s) == IF IsNumeral(s) THEN Num(ParseDigits(s)) ELSE NaN

\* pd.to_datetime of an ISO date text, given as its three numeric fields.
to_datetime(d) == Timestamp(d[1], d[2], d[3])

\* r.json().get("observations", [])
Observations(resp) == IF resp.hasObs THEN resp.observations ELSE <<>>

\* The frame built from the observations: indexing the "date" column of a
\* frame built from no observations raises KeyError; otherwise the rows keep
\* the order of the response.
fetch_fred(resp) ==
    LET obs == Observations(resp) IN
    IF obs = <<>>
    THEN [raised |-> TRUE, rows |-> <<>>]
    ELSE [raised |-> FALSE,
          rows |-> [i \in 1..Len(obs) |->
                      [date |-> to_datetime(obs[i].date),
                       value |-> to_numeric(obs[i].value)]]]

(***************************************************************************)
(* fetch_bls.                                                              *)
(***************************************************************************)
M13 == <<"M", "1", "3">>

\* r.json().get("Results", {}).get("series", [{}])[0].get("data", []):
\* every missing key falls back to a default, but an empty "series" list has
\* no element 0 (IndexError).
BlsDataRaises(resp) == resp.shape = "emptySeries"

BlsData(resp) == IF resp.shape = "data" THEN resp.data ELSE <<>>

\* int(item["period"][1:]) and float(item["value"]) raise ValueError on a
\* text that is not a number; to_datetime raises on a month outside 1..12.
ItemRaises(item) ==
    /\ item.period # M13
    /\ \/ ~IsNumeral(Tail(item.period))
       \/ ParseDigits(Tail(item.period)) \notin 1..12
       \/ ~IsNumeral(item.year)
       \/ ~IsNumeral(item.value)

\* The row appended for one entry that is not skipped.
ItemRow(item) ==
    LET month == ParseDigits(Tail(item.period)) IN
    [date |-> Timestamp(ParseDigits(item.year), month, 1),
     value |-> Num(ParseDigits(item.value))]

\* The loop over the entries: M13 entries are skipped, the others appended in
\* the order of the response.
RECURSIVE BlsRows(_)
BlsRows(data) ==
    IF data = <<>> THEN <<>>
    ELSE IF Head(data).period = M13 THEN BlsRows(Tail(data))
    ELSE <<ItemRow(Head(data))>> \o BlsRows(Tail(data))

IsSortedByDate(rows) ==
    \A i \in 1..(Len(rows) - 1) : DateKey(rows[i].date) <= DateKey(rows[i + 1].date)

RowOrders(n) == {p \in [1..n -> 1..n] : \A i, j \in 1..n : p[i] = p[j] => i = j}

\* DataFrame.sort_values("date"): the default sort is not stable, so rows of
\* equal date come out in any order.
sort_values(rows) ==
    {s \in {[i \in 1..Len(rows) |-> rows[p[i]]] : p \in RowOrders(Len(rows))} :
        IsSortedByDate(s)}

\* fetch_bls without its final sort_values("date").
fetch_bls_unsorted(resp) ==
    LET data == BlsData(resp) IN
    IF BlsDataRaises(resp) \/ \E i \in 1..Len(data) : ItemRaises(data[i])
    THEN {[raised |-> TRUE, rows |-> <<>>]}
    ELSE {[raised |-> FALSE, rows |-> BlsRows(data)]}

\* The tables fetch_bls can return for a response (or the raised marker).
fetch_bls(resp) ==
    LET data == BlsData(resp) IN
    IF BlsDataRaises(resp) \/ \E i \in 1..Len(data) : ItemRaises(data[i])
    THEN {[raised |-> TRUE, rows |-> <<>>]}
    ELSE {[raised |-> FALSE, rows |-> s] : s \in sort_values(BlsRows(data))}

(***************************************************************************)
(* Derived metrics.                                                        *)
(***************************************************************************)
\* Series.ffill(): a null takes the last non-null value before it, if any.
RECURSIVE ffill(_)
ffill(values) ==
    IF values = <<>> THEN <<>>
    ELSE LET front == ffill(SubSeq(values, 1, Len(values) - 1))
             last == values[Len(values)]
         IN IF last.isnull /\ front # <<>>
            THEN Append(front, front[Len(front)])
            ELSE Append(front, last)

\* (cur / prev - 1) * 100 as the exact fraction num / den; null when an
\* operand is null (or for 0 / 0).
PctOf(cur, prev) ==
    IF cur.isnull \/ prev.isnull \/ (cur.num = 0 /\ prev.num = 0)
    THEN [isnull |-> TRUE, num |-> 0, den |-> 1]
    ELSE [isnull |-> FALSE, num |-> (cur.num - prev.num) * 100, den |-> prev.num]

\* Series.pct_change(periods) * 100 under the build's default fill method.
pct_change(values, periods, pad) ==
    LET data == IF pad THEN ffill(values) ELSE values IN
    [i \in 1..Len(values) |->
        IF i <= periods THEN PctOf(NaN, NaN) ELSE PctOf(data[i], data[i - periods])]

\* df.set_index("date") and the yoy (and, for the CPI series, mom) columns.
Derive(s, rows, pad) ==
    LET values == [i \in 1..Len(rows) |-> rows[i].value]
        yoy == pct_change(values, YoyPeriods, pad)
        mom == pct_change(values, MomPeriods, pad)
    IN [made |-> TRUE,
        hasMom |-> s \in MomSeries,
        rows |-> [i \in 1..Len(rows) |->
                    [date |-> rows[i].date, value |-> rows[i].value,
                     yoy |-> yoy[i],
                     mom |-> IF s \in MomSeries THEN mom[i] ELSE PctOf(NaN, NaN)]]]

(***************************************************************************)
(* Latest-value snapshot and headline card.                                *)
(***************************************************************************)
\* The snapshot with iloc[-1] read for both values.
Latest_same_row(rows) ==
    IF rows = <<>> THEN [val |-> NaN, prev |-> NaN]
    ELSE [val |-> rows[Len(rows)].value,
          prev |-> IF Len(rows) > 1 THEN rows[Len(rows)].value ELSE NaN]

Latest(rows) ==
    IF rows = <<>> THEN [val |-> NaN, prev |-> NaN]
    ELSE [val |-> rows[Len(rows)].value,
          prev |-> IF Len(rows) > 1 THEN rows[Len(rows) - 1].value ELSE NaN]

\* delta = val - prev if pd.notna(prev) else None.  "omitted" is None; a
\* null val with a non-null prev gives a NaN delta.
Delta(snap) ==
    IF snap.prev.isnull THEN [omitted |-> TRUE, value |-> NaN]
    ELSE IF snap.val.isnull THEN [omitted |-> FALSE, value |-> NaN]
    ELSE [omitted |-> FALSE, value |-> Num(snap.val.num - snap.prev.num)]

(***************************************************************************)
(* JSON values and frame cells of the calendar.                            *)
(***************************************************************************)
\* A JSON member of an event object: absent, null, a text or an integer; a
\* date-time text is given as the hours from the midnight that starts the
\* fetch date.
Absent == [tag |-> "absent", text |-> "", int |-> 0]
JNull == [tag |-> "null", text |-> "", int |-> 0]
Text(t) == [tag |-> "text", text |-> t, int |-> 0]
IntOf(n) == [tag |-> "int", text |-> "", int |-> n]
DateTime(hours) == [tag |-> "datetime", text |-> "", int |-> hours]

\* Cells of a frame that are not JSON values: float NaN, None, pd.NA, NaT.
CellNaN == [tag |-> "nan", text |-> "", int |-> 0]
CellNone == [tag |-> "none", text |-> "", int |-> 0]
CellNA == [tag |-> "NA", text |-> "", int |-> 0]
CellNaT == [tag |-> "NaT", text |-> "", int |-> 0]

CALENDAR_COLUMNS ==
    <<"Date", "Country", "Event", "Actual", "Forecast", "TEForecast",
      "Previous", "Importance", "date_only", "time">>

\* The members of an event object the script reads.
RawColumns ==
    {"Date", "Country", "Event", "Actual", "Forecast", "TEForecast",
     "Previous", "Importance"}

HorizonDays == 14

(***************************************************************************)
(* fetch_calendar.                                                         *)
(***************************************************************************)
\* The try block: a request that raises, a non-2xx status and a body that is
\* not JSON all leave data = []; so does JSON that is not a list.
CalendarData(resp) == IF resp.kind = "list" THEN resp.items ELSE <<>>

\* Columns of pd.DataFrame(data): the members some object of the list has.
FrameColumns(data) ==
    {c \in RawColumns : \E i \in 1..Len(data) : data[i][c].tag # "absent"}

\* A column holding integers and no text is numeric: its nulls become NaN.
NumericColumn(data, c) ==
    /\ \E i \in 1..Len(data) : data[i][c].tag = "int"
    /\ \A i \in 1..Len(data) : data[i][c].tag \in {"int", "null", "absent"}

\* The cell of row i in column c of pd.DataFrame(data).
FrameCell(data, i, c) ==
    LET raw == data[i][c] IN
    IF raw.tag = "absent" THEN CellNaN
    ELSE IF raw.tag = "null"
         THEN (IF NumericColumn(data, c) THEN CellNaN ELSE CellNone)
    ELSE raw

\* strftime("%H:%M") of a time on the hour.
HourText(h) == CASE h = 8 -> "08:00" [] h = 14 -> "14:00" [] OTHER -> "00:00"

\* pd.to_datetime(cell, errors="coerce")
CoerceDatetime(cell) == IF cell.tag = "datetime" THEN cell ELSE CellNaT

\* The row fetch_calendar returns for row i of the frame: the raw columns
\* (pd.NA where the frame had no such column), the parsed Date, date_only
\* and time.  src is the position of the event in the response.
CalendarRow(data, i) ==
    LET cols == FrameColumns(data)
        cell(c) == IF c \in cols THEN FrameCell(data, i, c) ELSE CellNA
        date == CoerceDatetime(cell("Date"))
    IN [src |-> i,
        Date |-> date,
        Country |-> cell("Country"),
        Event |-> cell("Event"),
        Actual |-> cell("Actual"),
        Forecast |-> cell("Forecast"),
        TEForecast |-> cell("TEForecast"),
        Previous |-> cell("Previous"),
        Importance |-> cell("Importance"),
        date_only |-> IF date.tag = "datetime" THEN IntOf(date.int \div 24) ELSE CellNaT,
        time |-> IF date.tag = "datetime" THEN Text(HourText(date.int % 24)) ELSE CellNaN]

RECURSIVE UsRows(_, _)
UsRows(data, i) ==
    IF i > Len(data) THEN <<>>
    ELSE IF data[i].Country = Text("United States")
         THEN <<CalendarRow(data, i)>> \o UsRows(data, i + 1)
         ELSE UsRows(data, i + 1)

\* fetch_calendar, from the outcome of its HTTP call.  After the empty-frame
\* return nothing is guarded: a list holding something that is not an object,
\* a frame without a Country column (df[False] is a KeyError) and a frame
\* without a Date column (.dt on a column of None) all raise.
fetch_calendar(resp) ==
    LET data == CalendarData(resp) IN
    IF data = <<>>
    THEN [raised |-> FALSE, columns |-> CALENDAR_COLUMNS, rows |-> <<>>]
    ELSE IF \/ \E i \in 1..Len(data) : ~data[i].isObject
            \/ "Country" \notin FrameColumns(data)
            \/ "Date" \notin FrameColumns(data)
    THEN [raised |-> TRUE, columns |-> <<>>, rows |-> <<>>]
    ELSE [raised |-> FALSE, columns |-> CALENDAR_COLUMNS, rows |-> UsRows(data, 1)]

(***************************************************************************)
(* Sidebar rendering.                                                      *)
(***************************************************************************)
\* `x not in (None, "")`: comparing pd.NA gives NA, whose truth value raises.
FmtRaises(x) == x.tag = "NA"

\* _fmt(x) as the text the f-string shows.
Fmt(x) ==
    IF x.tag = "none" \/ x = Text("") THEN "N/A"
    ELSE IF x.tag = "nan" THEN "nan"
    ELSE x.text

\* bool(x) of a cell: None, "" and 0 are false, NaN and other texts are true.
Truthy(x) == ~(x.tag = "none" \/ x = Text("") \/ x = IntOf(0))

\* int(x) of an Importance cell, a JSON integer when present: NaN, None and
\* pd.NA raise.
IntRaises(x) == x.tag # "int"

Bullets(n) == [i \in 1..n |-> "*"]

\* One pass of the body of the event loop (lines 337-342): the texts shown
\* and the line that raised, 0 if none.
RenderEvent(ev) ==
    LET blank == [src |-> ev.src, raisedAt |-> 0, actual |-> "", forecast |-> "",
                  previous |-> "", dots |-> <<>>]
        picked == IF Truthy(ev.Forecast) THEN ev.Forecast ELSE ev.TEForecast
    IN IF FmtRaises(ev.Actual) THEN [blank EXCEPT !.raisedAt = 337]
       ELSE IF ev.Forecast.tag = "NA" \/ FmtRaises(picked)
       THEN [blank EXCEPT !.raisedAt = 338, !.actual = Fmt(ev.Actual)]
       ELSE IF FmtRaises(ev.Previous)
       THEN [blank EXCEPT !.raisedAt = 339, !.actual = Fmt(ev.Actual),
                          !.forecast = Fmt(picked)]
       ELSE IF IntRaises(ev.Importance)
       THEN [blank EXCEPT !.raisedAt = 341, !.actual = Fmt(ev.Actual),
                          !.forecast = Fmt(picked), !.previous = Fmt(ev.Previous)]
       ELSE [blank EXCEPT !.actual = Fmt(ev.Actual), !.forecast = Fmt(picked),
                          !.previous = Fmt(ev.Previous),
                          !.dots = Bullets(ev.Importance.int)]

\* The events the day loop visits: those whose date_only is one of the
\* HorizonDays days from start, by day and, within a day, by Date.
Listed(rows, start) ==
    {i \in 1..Len(rows) :
        /\ rows[i].date_only.tag = "int"
        /\ rows[i].date_only.int \in start..(start + HorizonDays - 1)}

\* Orders in which the loop can visit them (sort_values is not stable).
VisitOrders(rows, start) ==
    LET L == Listed(rows, start)
        n == Cardinality(L)
    IN {o \in [1..n -> L] :
           /\ \A a, b \in 1..n : o[a] = o[b] => a = b
           /\ \A a \in 1..(n - 1) : rows[o[a]].Date.int <= rows[o[a + 1]].Date.int}

\* Rendering in a given order stops at the first event that raises.
RECURSIVE RenderInOrder(_, _, _)
RenderInOrder(rows, order, k) ==
    IF k > Len(order) THEN <<>>
    ELSE LET line == RenderEvent(rows[order[k]]) IN
         IF line.raisedAt # 0 THEN <<line>>
         ELSE <<line>> \o RenderInOrder(rows, order, k + 1)

(***************************************************************************)
(* Responses the series APIs can send.                                     *)
(***************************************************************************)
\* FRED date texts "2024-01-01" .. "2024-03-01" as (year, month, day).
FredDates == {<<2024, m, 1>> : m \in 1..3}

\* FRED value texts: "7", "12" and the missing-value marker ".".
FredValues == {<<"7">>, <<"1", "2">>, <<".">>}

SeqsUpTo(S, n) == UNION {[1..k -> S] : k \in 0..n}

\* Freely ordered short responses, with or without the "observations" key.
ShortFredResponses(maxObs) ==
    {[hasObs |-> TRUE, observations |-> o] :
        o \in SeqsUpTo([date : FredDates, value : FredValues], maxObs)}
    \cup {[hasObs |-> FALSE, observations |-> <<>>]}

\* The date text of the k-th month after 2018-01 (START_DATE).
MonthDate(k) == <<2018 + (k \div 12), (k % 12) + 1, 1>>

\* The value text of month k of a monthly history: 100 + k.
MonthValue(k) == <<"1", DigitChar(k \div 10), DigitChar(k % 10)>>

\* Monthly histories of YoyPeriods..maxRows rows in date order, with at most
\* maxNulls "." values and at most one month missing from the calendar
\* (after row gap, when gap > 0).
LongFredResponses(maxRows, maxNulls) ==
    {[hasObs |-> TRUE,
      observations |->
         [i \in 1..n |->
            [date |-> MonthDate(IF gap > 0 /\ i > gap THEN i ELSE i - 1),
             value |-> IF i \in nulls THEN <<".">> ELSE MonthValue(i)]]] :
        <<n, gap, nulls>> \in
           {t \in (YoyPeriods..maxRows) \X (0..maxRows) \X (SUBSET (1..maxRows)) :
               /\ t[2] < t[1]
               /\ t[3] \subseteq 1..t[1]
               /\ Cardinality(t[3]) <= maxNulls}}

FredResponses(maxObs, maxRows, maxNulls) ==
    ShortFredResponses(maxObs) \cup LongFredResponses(maxRows, maxNulls)

\* (year, period) texts: December 2024, January 2025 and the 2024 annual row.
BlsPeriods ==
    {[year |-> <<"2", "0", "2", "4">>, period |-> <<"M", "1", "2">>],
     [year |-> <<"2", "0", "2", "5">>, period |-> <<"M", "0", "1">>],
     [year |-> <<"2", "0", "2", "4">>, period |-> M13]}

\* Value texts: "4", "15" and the "-" the API sends for a missing value.
BlsValues == {<<"4">>, <<"1", "5">>, <<"-">>}

BlsEntries ==
    {[year |-> yp.year, period |-> yp.period, value |-> v] :
        yp \in BlsPeriods, v \in BlsValues}

BlsResponses(maxObs) ==
    {[shape |-> "data", data |-> d] :
        d \in SeqsUpTo(BlsEntries, maxObs)}
    \cup {[shape |-> sh, data |-> <<>>] : sh \in {"noResults", "noSeries", "emptySeries", "noData"}}

(***************************************************************************)
(* Initial values of the series pipeline.                                  *)
(***************************************************************************)
NoTable == [raised |-> FALSE, rows |-> <<>>]
NoDerived == [made |-> FALSE, hasMom |-> FALSE, rows |-> <<>>]
NoLatest == [val |-> NaN, prev |-> NaN]
NoCard == [shown |-> FALSE, value |-> NaN, delta |-> [omitted |-> TRUE, value |-> NaN]]

(***************************************************************************)
(* Initial values of the script run.                                       *)
(***************************************************************************)
MaxDay == 2        \* last date the process clock reaches

\* The order of the two fetch loops: fred_ids, then bls_ids.
FetchOrder == fred_ids \o bls_ids

NothingShown ==
    [cards |-> FALSE, charts |-> FALSE, calendarCalled |-> FALSE, fromMemo |-> FALSE,
     listing |-> FALSE, window |-> 0, start |-> 0]

RunIdle ==
    /\ clock = 0
    /\ rpc = "off"
    /\ nextSeries = 1
    /\ memo = {}
    /\ calMemo = [cached |-> FALSE, window |-> 0]
    /\ requests = [s \in series_map |-> 0]
    /\ failed = ""
    /\ runDate = 0
    /\ shown = NothingShown

(***************************************************************************)
(* Outcomes of the calendar HTTP call.                                     *)
(***************************************************************************)
MaxEvents == 2     \* most events in a calendar response

\* Event objects: every member the script reads may be missing; Event is
\* always there, so the frame of a list of objects is never empty.
CalendarEvents ==
    [isObject : {TRUE},
     Event : {Text("CPI")},
     Country : {Absent, Text("United States"), Text("Germany")},
     Date : {Absent, DateTime(8)},
     Importance : {Absent, IntOf(1), IntOf(3)},
     Actual : {Absent, JNull, Text(""), Text("0.3%")},
     Forecast : {Absent, Text(""), Text("0.2%")},
     TEForecast : {Absent, Text("0.1%")},
     Previous : {Absent, Text("0.4%")}]

\* A list element that is not an object (a number, a text).
Scalar ==
    [isObject |-> FALSE, Event |-> Absent, Country |-> Absent, Date |-> Absent,
     Importance |-> Absent, Actual |-> Absent, Forecast |-> Absent,
     TEForecast |-> Absent, Previous |-> Absent]

CalendarResponses(maxEvents) ==
    {[kind |-> k, items |-> <<>>] : k \in {"raises", "status", "notjson", "object"}}
    \cup {[kind |-> "list", items |-> it] : it \in SeqsUpTo(CalendarEvents, maxEvents)}
    \cup {[kind |-> "list", items |-> <<Scalar>>]}

NoCalendarResponse == [kind |-> "none", items |-> <<>>]
NoCalendar == [raised |-> FALSE, columns |-> <<>>, rows |-> <<>>]
NoSidebar == [lines |-> <<>>]

CalendarIdle ==
    /\ calResponse = NoCalendarResponse
    /\ calendar_df = NoCalendar
    /\ sidebar = NoSidebar
    /\ cpc = "off"

SeriesIdle ==
    /\ sid = "CPIAUCSL"
    /\ response = [hasObs |-> FALSE, observations |-> <<>>]
    /\ padDefault = FALSE
    /\ table = NoTable
    /\ derived = NoDerived
    /\ latest = NoLatest
    /\ card = NoCard
    /\ pc = "off"

CalendarInit ==
    /\ calResponse \in CalendarResponses(MaxEvents)
    /\ calendar_df = NoCalendar
    /\ sidebar = NoSidebar
    /\ cpc = "fetch"
    /\ SeriesIdle
    /\ RunIdle

\* calendar_df = fetch_calendar(); an exception ends the script.
FetchCalendar ==
    /\ cpc = "fetch"
    /\ calendar_df' = fetch_calendar(calResponse)
    /\ cpc' = IF calendar_df'.raised THEN "raised" ELSE "sidebar"
    /\ UNCHANGED <<calResponse, sidebar>>
    /\ UNCHANGED nonCalendarVars

\* The day loop of the sidebar, started on the fetch date (day 0).
RenderSidebar ==
    /\ cpc = "sidebar"
    /\ \E order \in VisitOrders(calendar_df.rows, 0) :
          sidebar' = [lines |-> RenderInOrder(calendar_df.rows, order, 1)]
    /\ cpc' = "done"
    /\ UNCHANGED <<calResponse, calendar_df>>
    /\ UNCHANGED nonCalendarVars

CalendarNext == FetchCalendar \/ RenderSidebar

SpecCalendar == CalendarInit /\ [][CalendarNext]_vars

(***************************************************************************)
(* The pipeline of one series: fetch, derive, snapshot, headline card.     *)
(***************************************************************************)
SeriesInit ==
    /\ sid \in series_map
    /\ response \in (IF sid \in Range(fred_ids)
                      THEN ShortFredResponses(MaxObs)
                      ELSE BlsResponses(MaxObs))
    /\ padDefault \in BOOLEAN
    /\ table = NoTable
    /\ derived = NoDerived
    /\ latest = NoLatest
    /\ card = NoCard
    /\ pc = "fetch"
    /\ CalendarIdle
    /\ RunIdle

\* data_frames[sid] = fetch_fred(sid); an exception ends the script.
FetchFred ==
    /\ pc = "fetch"
    /\ sid \in Range(fred_ids)
    /\ table' = fetch_fred(response)
    /\ pc' = IF table'.raised THEN "raised" ELSE "derive"
    /\ UNCHANGED <<sid, response, derived, latest, card, padDefault>>
    /\ UNCHANGED nonSeriesVars

\* data_frames[sid] = fetch_bls(sid); an exception ends the script.
FetchBls ==
    /\ pc = "fetch"
    /\ sid \in Range(bls_ids)
    /\ table' \in fetch_bls(response)
    /\ pc' = IF table'.raised THEN "raised" ELSE "derive"
    /\ UNCHANGED <<sid, response, derived, latest, card, padDefault>>
    /\ UNCHANGED nonSeriesVars

\* The derived frame of the four inflation series; the others have none.
ComputeDerived ==
    /\ pc = "derive"
    /\ derived' = IF sid \in YoySeries THEN Derive(sid, table.rows, padDefault) ELSE derived
    /\ pc' = "latest"
    /\ UNCHANGED <<sid, response, table, latest, card, padDefault>>
    /\ UNCHANGED nonSeriesVars

\* latest[sid] and latest["prev_" + sid].
ComputeLatest ==
    /\ pc = "latest"
    /\ latest' = Latest(table.rows)
    /\ pc' = "metric"
    /\ UNCHANGED <<sid, response, table, derived, card, padDefault>>
    /\ UNCHANGED nonSeriesVars

\* st.metric(series_map[sid], value, delta).
ShowMetric ==
    /\ pc = "metric"
    /\ card' = [shown |-> TRUE, value |-> latest.val, delta |-> Delta(latest)]
    /\ pc' = "done"
    /\ UNCHANGED <<sid, response, table, derived, latest, padDefault>>
    /\ UNCHANGED nonSeriesVars

SeriesNext == FetchFred \/ FetchBls \/ ComputeDerived \/ ComputeLatest \/ ShowMetric

SpecSeries == SeriesInit /\ [][SeriesNext]_vars

\* The pipeline of the four inflation series, over short responses and
\* monthly histories long enough for the yoy column.
DeriveInit ==
    /\ sid \in YoySeries
    /\ response \in FredResponses(MaxObs, MaxRows, MaxNulls)
    /\ padDefault \in BOOLEAN
    /\ table = NoTable
    /\ derived = NoDerived
    /\ latest = NoLatest
    /\ card = NoCard
    /\ pc = "fetch"
    /\ CalendarIdle
    /\ RunIdle

DeriveNext == FetchFred \/ ComputeDerived \/ ComputeLatest \/ ShowMetric

SpecDerive == DeriveInit /\ [][DeriveNext]_vars

(***************************************************************************)
(* The script run: the host framework runs the script top to bottom on     *)
(* every interaction, in one process, with its memoization kept between    *)
(* runs.                                                                   *)
(***************************************************************************)
RunInit ==
    /\ clock = 0
    /\ rpc = "idle"
    /\ nextSeries = 1
    /\ memo = {}
    /\ calMemo = [cached |-> FALSE, window |-> 0]
    /\ requests = [s \in series_map |-> 0]
    /\ failed = ""
    /\ runDate = 0
    /\ shown = NothingShown
    /\ SeriesIdle
    /\ CalendarIdle

\* Midnight UTC passes.
Tick ==
    /\ clock < MaxDay
    /\ clock' = clock + 1
    /\ UNCHANGED <<rpc, nextSeries, memo, calMemo, requests, failed, runDate, shown>>
    /\ UNCHANGED nonRunVars

\* An interaction (or the first page load) starts a run on a fresh page.
StartRun ==
    /\ rpc \in {"idle", "done", "aborted"}
    /\ rpc' = "series"
    /\ nextSeries' = 1
    /\ requests' = [s \in series_map |-> 0]
    /\ failed' = ""
    /\ runDate' = clock
    /\ shown' = NothingShown
    /\ UNCHANGED <<clock, memo, calMemo>>
    /\ UNCHANGED nonRunVars

CurrentSeries == FetchOrder[nextSeries]

\* Where the script is after data_frames[sid] has been assigned.
AfterSeries == IF nextSeries = Len(FetchOrder) THEN "render" ELSE "series"

Advance == IF nextSeries = Len(FetchOrder) THEN nextSeries ELSE nextSeries + 1

\* The fetcher is served from the memoization: no request is sent.
SeriesFromMemo ==
    /\ rpc = "series"
    /\ CurrentSeries \in memo
    /\ rpc' = AfterSeries
    /\ nextSeries' = Advance
    /\ UNCHANGED <<clock, memo, calMemo, requests, failed, runDate, shown>>
    /\ UNCHANGED nonRunVars

\* The request succeeds and the body parses: the table is memoized.
SeriesFetched ==
    /\ rpc = "series"
    /\ CurrentSeries \notin memo
    /\ requests' = [requests EXCEPT ![CurrentSeries] = @ + 1]
    /\ memo' = memo \cup {CurrentSeries}
    /\ rpc' = AfterSeries
    /\ nextSeries' = Advance
    /\ UNCHANGED <<clock, calMemo, failed, runDate, shown>>
    /\ UNCHANGED nonRunVars

\* The failed request caught by the loop, which goes on to the next series.
SeriesRequestFails_caught ==
    /\ rpc = "series"
    /\ CurrentSeries \notin memo
    /\ requests' = [requests EXCEPT ![CurrentSeries] = @ + 1]
    /\ failed' = CurrentSeries
    /\ rpc' = AfterSeries
    /\ nextSeries' = Advance
    /\ UNCHANGED <<clock, memo, calMemo, runDate, shown>>
    /\ UNCHANGED nonRunVars

\* The request times out or raise_for_status() raises: nothing in the fetcher
\* or in the loop catches it, the script ends and nothing is memoized.
SeriesRequestFails ==
    /\ rpc = "series"
    /\ CurrentSeries \notin memo
    /\ requests' = [requests EXCEPT ![CurrentSeries] = @ + 1]
    /\ failed' = CurrentSeries
    /\ rpc' = "aborted"
    /\ UNCHANGED <<clock, nextSeries, memo, calMemo, runDate, shown>>
    /\ UNCHANGED nonRunVars

\* The request succeeds but building the table raises (fetch_fred on no
\* observations, fetch_bls on an empty series list or a value that is not a
\* number): the script ends as well.
SeriesParseRaises ==
    /\ rpc = "series"
    /\ CurrentSeries \notin memo
    /\ requests' = [requests EXCEPT ![CurrentSeries] = @ + 1]
    /\ rpc' = "aborted"
    /\ UNCHANGED <<clock, nextSeries, memo, calMemo, failed, runDate, shown>>
    /\ UNCHANGED nonRunVars

\* Lines 167-318: derived metrics, snapshot, headline cards and charts.
RenderMain ==
    /\ rpc = "render"
    /\ shown' = [shown EXCEPT !.cards = TRUE, !.charts = TRUE]
    /\ rpc' = "calendar"
    /\ UNCHANGED <<clock, nextSeries, memo, calMemo, requests, failed, runDate>>
    /\ UNCHANGED nonRunVars

\* fetch_calendar() takes no arguments: once memoized, every later call is
\* served the table of the first window.
CalendarFromMemo ==
    /\ rpc = "calendar"
    /\ calMemo.cached
    /\ shown' = [shown EXCEPT !.calendarCalled = TRUE, !.fromMemo = TRUE,
                               !.window = calMemo.window]
    /\ rpc' = "listing"
    /\ UNCHANGED <<clock, nextSeries, memo, calMemo, requests, failed, runDate>>
    /\ UNCHANGED nonRunVars

\* fetch_calendar() runs, reads the clock for its window and returns a table
\* (possibly empty), which is memoized.
CalendarFetched ==
    /\ rpc = "calendar"
    /\ ~calMemo.cached
    /\ calMemo' = [cached |-> TRUE, window |-> clock]
    /\ shown' = [shown EXCEPT !.calendarCalled = TRUE, !.window = clock]
    /\ rpc' = "listing"
    /\ UNCHANGED <<clock, nextSeries, memo, requests, failed, runDate>>
    /\ UNCHANGED nonRunVars

\* fetch_calendar() runs and raises after its try block: nothing is memoized.
CalendarRaises ==
    /\ rpc = "calendar"
    /\ ~calMemo.cached
    /\ shown' = [shown EXCEPT !.calendarCalled = TRUE]
    /\ rpc' = "aborted"
    /\ UNCHANGED <<clock, nextSeries, memo, calMemo, requests, failed, runDate>>
    /\ UNCHANGED nonRunVars

\* Lines 326-353: the listing reads the clock again for its first day.
ListSidebar ==
    /\ rpc = "listing"
    /\ shown' = [shown EXCEPT !.listing = TRUE, !.start = clock]
    /\ rpc' = "done"
    /\ UNCHANGED <<clock, nextSeries, memo, calMemo, requests, failed, runDate>>
    /\ UNCHANGED nonRunVars

RunNext ==
    \/ Tick
    \/ StartRun
    \/ SeriesFromMemo
    \/ SeriesFetched
    \/ SeriesRequestFails
    \/ SeriesParseRaises
    \/ RenderMain
    \/ CalendarFromMemo
    \/ CalendarFetched
    \/ CalendarRaises
    \/ ListSidebar

SpecRun == RunInit /\ [][RunNext]_vars

(***************************************************************************)
(* Properties of the series pipeline.                                      *)
(***************************************************************************)
Fetched == pc \notin {"fetch"}

StrictlyAscending(rows) ==
    \A i \in 1..(Len(rows) - 1) : DateKey(rows[i].date) < DateKey(rows[i + 1].date)

\* C3: for every FRED response (observations empty, absent, with "." values
\* or out of date order) fetch_fred returns without raising a table with one
\* row per observation, dates strictly ascending, values finite or null.
C3_FredTableWellFormed ==
    (Fetched /\ sid \in Range(fred_ids)) =>
        /\ ~table.raised
        /\ Len(table.rows) = Len(Observations(response))
        /\ StrictlyAscending(table.rows)
        /\ \A i \in 1..Len(table.rows) :
              table.rows[i].value.isnull \/ table.rows[i].value.num \in Int

\* The calendar month an M01..M12 period text names, and the year a year
\* text names, written out for the texts the responses use.
MonthOfPeriod(p) ==
    CASE p = <<"M", "0", "1">> -> 1
      [] p = <<"M", "0", "2">> -> 2
      [] p = <<"M", "1", "2">> -> 12
      [] OTHER -> 0

YearOfText(y) ==
    CASE y = <<"2", "0", "2", "4">> -> 2024
      [] y = <<"2", "0", "2", "5">> -> 2025
      [] OTHER -> 0

CountRows(rows, t) == Cardinality({i \in 1..Len(rows) : rows[i].date = t})

CountEntries(data, t) ==
    Cardinality({i \in 1..Len(data) :
        /\ data[i].period # M13
        /\ Timestamp(YearOfText(data[i].year), MonthOfPeriod(data[i].period), 1) = t})

\* C4: the table fetch_bls returns has no row for an M13 entry, exactly one
\* row for every M01..M12 entry, dated the first day of that month of the
\* entry's year, and is sorted by date ascending whatever the response order.
C4_BlsTable ==
    (Fetched /\ sid \in Range(bls_ids) /\ ~table.raised) =>
        LET data == BlsData(response) IN
        /\ Len(table.rows) = Cardinality({i \in 1..Len(data) : data[i].period # M13})
        /\ \A y \in 2024..2025, m \in 1..13, d \in 1..2 :
              CountRows(table.rows, Timestamp(y, m, d))
                 = CountEntries(data, Timestamp(y, m, d))
        /\ IsSortedByDate(table.rows)

\* A response listing January 2025 before December 2024 with an annual row
\* between them has been fetched into a two-row table.
C4_Witness ==
    /\ Fetched /\ sid \in Range(bls_ids) /\ ~table.raised
    /\ Len(BlsData(response)) = 3
    /\ BlsData(response)[1].period = <<"M", "0", "1">>
    /\ BlsData(response)[2].period = M13
    /\ BlsData(response)[3].period = <<"M", "1", "2">>
    /\ Len(table.rows) = 2
    /\ table.rows[1].date = Timestamp(2024, 12, 1)

LastValue(rows) == rows[Len(rows)].value
SecondLastValue(rows) == rows[Len(rows) - 1].value

\* The parts of C5 about tables of fewer than two rows, and the snapshot.
C5_Snapshot ==
    LET rows == table.rows IN
    /\ Len(rows) >= 2 =>
          latest = [val |-> LastValue(rows), prev |-> SecondLastValue(rows)]
    /\ Len(rows) = 1 =>
          /\ latest = [val |-> rows[1].value, prev |-> NaN]
          /\ card.delta.omitted
    /\ Len(rows) = 0 =>
          /\ latest = [val |-> NaN, prev |-> NaN]
          /\ card.delta.omitted

\* C5 as stated: on a table of two or more rows the delta is non-null and
\* equal to last minus second-to-last, also when one of the two is null.
C5_DeltaAlwaysPresent ==
    card.shown =>
        /\ C5_Snapshot
        /\ Len(table.rows) >= 2 =>
              /\ ~card.delta.omitted
              /\ ~card.delta.value.isnull
              /\ (~LastValue(table.rows).isnull /\ ~SecondLastValue(table.rows).isnull) =>
                    card.delta.value.num
                       = LastValue(table.rows).num - SecondLastValue(table.rows).num

\* C5 amended: on a table of two or more rows the snapshot is (last,
\* second-to-last); the delta is non-null and equal to their difference when
\* both are non-null, is omitted when the second-to-last is null, and is null
\* when only the last is null.  One-row: (value, null), delta omitted.
\* Empty: (null, null), delta omitted.
C5_DeltaWhenBothPresent ==
    card.shown =>
        /\ C5_Snapshot
        /\ card.value = latest.val
        /\ Len(table.rows) >= 2 =>
              LET last == LastValue(table.rows)
                  prev == SecondLastValue(table.rows)
              IN /\ (~last.isnull /\ ~prev.isnull) =>
                       /\ ~card.delta.omitted
                       /\ card.delta.value = Num(last.num - prev.num)
                 /\ prev.isnull => card.delta.omitted
                 /\ (last.isnull /\ ~prev.isnull) =>
                       /\ ~card.delta.omitted
                       /\ card.delta.value.isnull

\* A card with a non-zero delta over a table of three rows whose first and
\* second rows differ.
C5_Witness ==
    /\ card.shown
    /\ Len(table.rows) = 3
    /\ ~card.delta.omitted
    /\ ~card.delta.value.isnull
    /\ card.delta.value.num # 0
    /\ table.rows[1].value # table.rows[2].value

DerivedRows == derived.rows

\* C8: the derived table has the rows, dates and values of the series table;
\* yoy is null at rows before the 13th and from the 13th on is the change
\* between row i and row i-12, whatever their dates; mom is null at the first
\* row and from the second on is the change between row i and row i-1.
C8_ByRowPosition ==
    derived.made =>
        /\ Len(DerivedRows) = Len(table.rows)
        /\ \A i \in 1..Len(DerivedRows) :
              /\ DerivedRows[i].date = table.rows[i].date
              /\ DerivedRows[i].value = table.rows[i].value
              /\ i <= YoyPeriods => DerivedRows[i].yoy.isnull
              /\ i > YoyPeriods =>
                    DerivedRows[i].yoy
                       = PctOf(table.rows[i].value, table.rows[i - YoyPeriods].value)
              /\ (derived.hasMom /\ i = 1) => DerivedRows[i].mom.isnull
              /\ (derived.hasMom /\ i > 1) =>
                    DerivedRows[i].mom
                       = PctOf(table.rows[i].value, table.rows[i - 1].value)

\* C9: yoy and mom are null wherever the value at the row, or at the row it
\* is compared with, is null.
C9_NullPropagating ==
    derived.made =>
        \A i \in 1..Len(DerivedRows) :
            /\ (i > YoyPeriods
                  /\ (table.rows[i].value.isnull
                        \/ table.rows[i - YoyPeriods].value.isnull))
                  => DerivedRows[i].yoy.isnull
            /\ (derived.hasMom /\ i > 1
                  /\ (table.rows[i].value.isnull \/ table.rows[i - 1].value.isnull))
                  => DerivedRows[i].mom.isnull

(***************************************************************************)
(* Properties of the calendar.                                             *)
(***************************************************************************)
CalendarFetchDone == cpc \in {"sidebar", "raised", "done"}

\* C1: whatever the calendar HTTP call does, fetch_calendar returns a table
\* with exactly CALENDAR_COLUMNS, with no rows when the call raised or the
\* JSON was not a list.
C1_NeverPropagates ==
    CalendarFetchDone =>
        /\ ~calendar_df.raised
        /\ calendar_df.columns = CALENDAR_COLUMNS
        /\ calResponse.kind # "list" => calendar_df.rows = <<>>

RawEvent(line) == calResponse.items[line.src]

\* C6: an event that reaches the loop gets n bullets when its Importance is
\* n, and one bullet, without raising, when it carried no Importance.
C6_ImportanceBullets ==
    \A k \in 1..Len(sidebar.lines) :
        LET line == sidebar.lines[k]
            raw == RawEvent(line)
        IN /\ (raw.Importance.tag = "int" /\ line.raisedAt = 0) =>
                 /\ Len(line.dots) = raw.Importance.int
                 /\ \A j \in 1..Len(line.dots) : line.dots[j] = "*"
           /\ raw.Importance = Absent =>
                 /\ line.raisedAt # 341
                 /\ line.raisedAt = 0 => line.dots = <<"*">>

\* A display member that is absent, null or the empty text.
Missing(raw) == raw.tag \in {"absent", "null"} \/ raw = Text("")

Shown(raw) == IF Missing(raw) THEN "N/A" ELSE raw.text

\* C7: for every event rendered, a missing actual, forecast or previous is
\* shown as "N/A" without raising, and the forecast shown is Forecast when
\* present and TEForecast otherwise.
C7_MissingShownAsPlaceholder ==
    \A k \in 1..Len(sidebar.lines) :
        LET line == sidebar.lines[k]
            raw == RawEvent(line)
        IN /\ line.raisedAt \notin {337, 338, 339}
           /\ line.actual = Shown(raw.Actual)
           /\ line.previous = Shown(raw.Previous)
           /\ line.forecast =
                 (IF Missing(raw.Forecast) THEN Shown(raw.TEForecast)
                  ELSE raw.Forecast.text)

(***************************************************************************)
(* Properties of the script run.                                           *)
(***************************************************************************)
\* C2: when the HTTP request of one of the 8 series fetches fails, the run
\* is aborted with no headline card, chart or calendar entry rendered and
\* fetch_calendar not called; no table stands in for the failed series and
\* no series is requested twice in a run.
C2_FailureAbortsRun ==
    /\ failed # "" =>
          /\ rpc = "aborted"
          /\ ~shown.cards /\ ~shown.charts /\ ~shown.listing
          /\ ~shown.calendarCalled
          /\ failed \notin memo
    /\ \A s \in series_map : requests[s] <= 1

\* A run in which five series were served or fetched and the request of the
\* first BLS series failed.
C2_Witness ==
    /\ failed = "CEU0000000001"
    /\ rpc = "aborted"
    /\ requests["CEU0000000001"] = 1
    /\ Range(fred_ids) \subseteq memo

\* C10: in a run that starts and lists on one date, the calendar table
\* listed was fetched for the window that starts on that date, also when
\* fetch_calendar is served from the memoization.
C10_WindowStartsToday ==
    (shown.listing /\ shown.start = runDate) => shown.window = shown.start

====
